---- MODULE Spec2Model ----
(***************************************************************************)
(* A model of snakemake/shell.py: the class-level shell configuration      *)
(* (executable, prefix, suffix), the registry of running processes with    *)
(* its lock (kill, cleanup), and shell.__new__ with its three ways of      *)
(* handling the child's output (streaming generator, capture, plain wait). *)
(*                                                                         *)
(* Text is a sequence of tokens; a token is a word or the single space     *)
(* " ".  A path is a sequence of components, absolute when the first       *)
(* component is "/".  An output line is a sequence of characters, the      *)
(* last of which is "\n" when the line is terminated.                      *)
(***************************************************************************)
EXTENDS Integers, Sequences, FiniteSets, TLC

VARIABLES
    \* the platform the module was loaded on
    posix,            \* os.name == "posix"
    onPath,           \* the names shutil.which resolves
    \* class attributes of shell
    _process_args,    \* [executable |-> path], NoExe when the key is missing
    _process_prefix,
    _process_suffix,
    _lock,            \* the holder of shell._lock, Free when none
    _processes,       \* job-id -> process, NoProc when the key is missing
    \* the notification sink and the configuration calls
    warnings,         \* number of logger.warning calls
    setterResult,     \* how the last call of shell.executable ended
    setterCalls,      \* the calls of the setters since start-up: of
                      \* shell.executable, of these the ones that set a
                      \* bash, of shell.prefix (0 or 1), and of
                      \* shell.prefix since the executable was last set
    \* one entry per invocation of shell(...)
    pc,               \* where the invocation stands
    call,             \* its arguments and the context it read
    cmd,              \* the command text handed to Popen
    notes,            \* what it sent to the logger
    ret,              \* the value of the local ret
    retcode,          \* the value of the local retcode
    outcome,          \* how the invocation ended
    items,            \* what the generator has yielded so far
    \* the child process of each invocation
    proc,             \* [state, out, code, signals, waited]
    \* the canceller thread
    cpc,
    carg,
    \* history of each invocation, read only by the properties
    hist

cfgvars == <<posix, onPath, _process_args, _process_prefix, _process_suffix,
             warnings, setterResult, setterCalls>>
regvars == <<_lock, _processes>>
invvars == <<pc, call, cmd, notes, ret, retcode, outcome, items>>
canvars == <<cpc, carg>>
vars == <<cfgvars, regvars, invvars, proc, canvars, hist>>

----------------------------------------------------------------------------
\* Bounds of the model.

MaxLines == 2         \* lines a child process prints
MaxSets == 3          \* calls of shell.executable after start-up

\* the invocations of shell(...) of one behaviour: an invocation and one
\* that may overlap it on another thread
Invs == {1, 2}

----------------------------------------------------------------------------
\* Text.

SP == " "
FailFast == <<"set -euo pipefail;", SP>>     \* "set -euo pipefail; "

RECURSIVE LStrip(_)
LStrip(s) == IF s # <<>> /\ Head(s) = SP THEN LStrip(Tail(s)) ELSE s

RECURSIVE RStrip(_)
RStrip(s) ==
    IF s # <<>> /\ s[Len(s)] = SP THEN RStrip(SubSeq(s, 1, Len(s) - 1)) ELSE s

\* str.strip()
Strip(s) == RStrip(LStrip(s))

\* the number of places at which sub occurs in s
CountSub(sub, s) ==
    Cardinality({i \in 1..(Len(s) - Len(sub) + 1) :
                    SubSeq(s, i, i + Len(sub) - 1) = sub})

\* snakemake.utils.format: every placeholder token is replaced by the value
\* bound to it
Format(s, bindings) ==
    [i \in 1..Len(s) |->
        IF s[i] \in DOMAIN bindings THEN bindings[s[i]] ELSE s[i]]

\* fmt = lambda to_fmt: format(to_fmt, *args, stepout=2, **kwargs).strip()
Fmt(s, bindings) == Strip(Format(s, bindings))

----------------------------------------------------------------------------
\* Paths and the search path.

NoExe == <<>>
BinBash == <<"/", "bin", "bash">>
BinSh == <<"/", "bin", "sh">>

\* os.path.isabs
IsAbs(p) == p # <<>> /\ p[1] = "/"

\* os.path.split(p)[-1]
Basename(p) == IF p = <<>> THEN "" ELSE p[Len(p)]

\* shutil.which: None (NoExe) when the name is not found
Which(name, path) ==
    IF name = <<"bash">> /\ "bash" \in path THEN BinBash
    ELSE IF name = <<"sh">> /\ "sh" \in path THEN BinSh
    ELSE NoExe

\* what callers pass to shell.executable
ExeInputs ==
    { <<"bash">>, <<"sh">>, <<"zsh">>, BinBash, BinSh,
      <<"/", "opt", "bash">> }

PrefixInputs == { <<>>, <<"p;", SP>>, FailFast }
SuffixInputs == { <<>>, <<SP, ";s">> }

----------------------------------------------------------------------------
\* shell.executable, shell.prefix, shell.suffix on a configuration record
\* [args, prefix, suffix, result].

\* an executable setter that forgets the directive
AddFailFastForgotten(prefix) == prefix

\* line 59: cls._process_prefix += "set -euo pipefail; "
AddFailFast(prefix) == prefix \o FailFast

Resolve(c, isPosix, path) ==
    IF isPosix /\ ~IsAbs(c) THEN Which(c, path) ELSE c

\* line 53 raises WorkflowError, a name the module never imports or defines:
\* evaluating it raises NameError
ExecutableSetter(cfg, c, isPosix, path) ==
    LET r == Resolve(c, isPosix, path) IN
    IF isPosix /\ ~IsAbs(c) /\ r = NoExe
    THEN [cfg EXCEPT !.result = "NameError"]
    ELSE [cfg EXCEPT
            !.prefix = IF Basename(r) = "bash" THEN AddFailFast(@) ELSE @,
            !.args = r,
            !.result = "ok"]

\* the class attributes as the class statement leaves them
ClassBody == [args |-> NoExe, prefix |-> <<>>, suffix |-> <<>>,
              result |-> "none", warnings |-> 0]

\* a start-up that knows no fallback shell
StartUpWithoutFallback(isPosix, path) ==
    IF ~isPosix \/ Which(<<"bash">>, path) = NoExe THEN ClassBody
    ELSE ExecutableSetter(ClassBody, <<"bash">>, isPosix, path)

\* lines 175-191: the module's start-up detection
StartUp(isPosix, path) ==
    IF ~isPosix THEN ClassBody
    ELSE IF Which(<<"bash">>, path) = NoExe
    THEN IF Which(<<"sh">>, path) = NoExe
         THEN [ClassBody EXCEPT !.warnings = 2]
         ELSE [ExecutableSetter(ClassBody, <<"sh">>, isPosix, path)
                  EXCEPT !.warnings = 1]
    ELSE ExecutableSetter(ClassBody, <<"bash">>, isPosix, path)

\* the platforms the module is loaded on
Platforms ==
    { [posix |-> TRUE, path |-> {"bash", "sh"}],
      [posix |-> TRUE, path |-> {"bash"}],
      [posix |-> TRUE, path |-> {"sh"}],
      [posix |-> TRUE, path |-> {}],
      [posix |-> FALSE, path |-> {}] }

InitConfig(pf) ==
    LET s == StartUp(pf.posix, pf.path) IN
    /\ posix = pf.posix
    /\ onPath = pf.path
    /\ _process_args = s.args
    /\ _process_prefix = s.prefix
    /\ _process_suffix = s.suffix
    /\ warnings = s.warnings
    /\ setterResult = "none"
    /\ setterCalls = [executable |-> 0, bash |-> 0, prefix |-> 0,
                      since |-> 0]

SetExecutable(c) ==
    /\ setterCalls.executable < MaxSets
    /\ LET cfg == [args |-> _process_args, prefix |-> _process_prefix,
                   suffix |-> _process_suffix, result |-> "none",
                   warnings |-> warnings]
           new == ExecutableSetter(cfg, c, posix, onPath)
       IN /\ _process_args' = new.args
          /\ _process_prefix' = new.prefix
          /\ setterResult' = new.result
          /\ setterCalls' =
                [setterCalls EXCEPT
                    !.executable = @ + 1,
                    !.bash = IF new.result = "ok" /\ Basename(new.args) = "bash"
                             THEN @ + 1 ELSE @,
                    !.since = IF new.result = "ok" THEN 0 ELSE @]
    /\ UNCHANGED <<posix, onPath, _process_suffix, warnings>>

SetPrefix(p) ==
    /\ _process_prefix' = p
    /\ setterCalls' = [setterCalls EXCEPT !.prefix = 1, !.since = 1]
    /\ UNCHANGED <<posix, onPath, _process_args, _process_suffix, warnings,
                   setterResult>>

SetSuffix(s) ==
    /\ _process_suffix' = s
    /\ UNCHANGED <<posix, onPath, _process_args, _process_prefix, warnings,
                   setterResult, setterCalls>>

----------------------------------------------------------------------------
\* The command text of an invocation (lines 87-129).

\* the values a selector of the context takes: missing, empty, given
Absent == "None"
Empty == ""

Truthy(v) == v # Absent /\ v # Empty

\* the three collaborators, each a black box that rewrites the command
ModulesShellcmd(env_modules, c) ==
    <<"modules(", env_modules, ":">> \o c \o <<")">>

CondaShellcmd(container_img, conda_env, c) ==
    <<"conda(", container_img, conda_env, ":">> \o c \o <<")">>

SingularityShellcmd(container_img, c, args, shell_executable, workdir) ==
    <<"singularity(", container_img, args, workdir>> \o shell_executable
        \o <<":">> \o c \o <<")">>

\* line 107: "{} {} {}".format(fmt(prefix), fmt(cmd), fmt(suffix))
BaseCmd(prefix, template, suffix, bindings) ==
    Fmt(prefix, bindings) \o <<SP>> \o Fmt(template, bindings) \o <<SP>>
        \o Fmt(suffix, bindings)

\* lines 111-112
ModulesStage(ctx, c) ==
    IF Truthy(ctx.env_modules) THEN ModulesShellcmd(ctx.env_modules, c) ELSE c

\* lines 115-116
CondaStage(ctx, c) ==
    IF Truthy(ctx.conda_env)
    THEN CondaShellcmd(ctx.container_img, ctx.conda_env, c) ELSE c

\* lines 118-126, for an executable that is set
ContainerStage(ctx, c, exe) ==
    IF Truthy(ctx.container_img)
    THEN SingularityShellcmd(ctx.container_img, c, ctx.singularity_args, exe,
                             ctx.shadow_dir)
    ELSE c

\* a composition that wraps for the container before conda
WrapCmdContainerFirst(ctx, base, exe) ==
    CondaStage(ctx, ContainerStage(ctx, ModulesStage(ctx, base), exe))

\* lines 107-126
WrapCmd(ctx, base, exe) ==
    ContainerStage(ctx, CondaStage(ctx, ModulesStage(ctx, base)), exe)

\* line 124 reads cls._process_args["executable"]: KeyError when the key
\* is missing
WrapFails(ctx, exe) == Truthy(ctx.container_img) /\ exe = NoExe

\* lines 99, 113, 127, 129: what reaches the logger, in order; the
\* container and conda messages are not reached when line 124 raises
Notifications(ctx, prefix, exe, bindings) ==
    (IF ctx.is_shell THEN <<>>
     ELSE << <<"shellcmd">> \o Fmt(ctx.template, bindings) >>)
    \o (IF Truthy(ctx.env_modules) THEN << <<"info", "modules">> >> ELSE <<>>)
    \o (IF Truthy(ctx.container_img) /\ ~WrapFails(ctx, exe)
        THEN << <<"info", "singularity">> >> ELSE <<>>)
    \o (IF Truthy(ctx.conda_env) /\ ~WrapFails(ctx, exe)
        THEN << <<"info", "conda">> >> ELSE <<>>)

\* what the caller's frame and keyword arguments bind
Bindings == [ph \in {"{x}"} |-> "v"]

PlainCtx(t, sh) ==
    [template |-> t, is_shell |-> sh, env_modules |-> Absent,
     conda_env |-> Absent, container_img |-> Absent,
     singularity_args |-> Empty, shadow_dir |-> Absent]

\* the contexts the invocations of the engine run in
Contexts ==
    { PlainCtx(<<"echo", SP, "{x}">>, FALSE),
      [PlainCtx(<<SP, "true", SP>>, TRUE) EXCEPT
          !.env_modules = "mod", !.conda_env = "env", !.container_img = "img"] }

\* every way of giving the three selectors: missing, empty, given
Selected ==
    { [PlainCtx(<<"echo", SP, "{x}">>, FALSE) EXCEPT
          !.env_modules = m, !.conda_env = e, !.container_img = g] :
      m \in {Absent, Empty, "mod"}, e \in {Absent, Empty, "env"},
      g \in {Absent, Empty, "img"} }

----------------------------------------------------------------------------
\* The registry and the child processes.

Free == 0
Canceller == -1

NoJob == 0            \* context.get("jobid") is None
JobIds == {1, 2}      \* the job-ids kill is called with
CallJobs == {1}       \* the job-ids invocations carry
NoProc == 0

\* piped: the child's standard output is a pipe the parent reads
NoProcess == [state |-> "none", piped |-> FALSE, out |-> <<>>, code |-> 0,
              signals |-> 0, waited |-> FALSE]

\* sp.Popen(cmd, stdout=stdout, ...)
Popen(stdoutIsPipe) ==
    [NoProcess EXCEPT !.state = "running", !.piped = stdoutIsPipe]

\* Popen.kill: SIGKILL ends a running child with return code -9
PopenKill(p) ==
    [p EXCEPT !.signals = @ + 1,
              !.state = "exited",
              !.code = IF p.state = "running" THEN -9 ELSE @]

\* a registration that is lost
RegistryInsertLost(reg, j, p) == reg

\* line 143: cls._processes[jobid] = proc
RegistryInsert(reg, j, p) == [reg EXCEPT ![j] = p]

\* a deregistration that leaves the entry in place
RegistryDeleteKept(reg, j) == reg

\* line 160: del cls._processes[jobid], for a job-id that is a key
RegistryDelete(reg, j) == [reg EXCEPT ![j] = NoProc]

\* line 80: cls._processes.clear()
RegistryClear(reg) == [j \in DOMAIN reg |-> NoProc]

\* the k-th line a child prints: k characters, terminated or not
Line(k, terminated) ==
    [n \in 1..k |-> "x"] \o (IF terminated THEN <<"\n">> ELSE <<>>)

Terminated(l) == l # <<>> /\ l[Len(l)] = "\n"

\* line 169: l[:-1]
StripLast(l) == SubSeq(l, 1, Len(l) - 1)

RECURSIVE Concat(_)
Concat(ls) == IF ls = <<>> THEN <<>> ELSE Head(ls) \o Concat(Tail(ls))

InFlight(i) == pc[i] \notin {"new", "done"}

----------------------------------------------------------------------------
\* shell.__new__ (lines 82-164), one invocation i.

None == <<"None">>

NoCall == [jobid |-> NoJob, iterable |-> FALSE, read |-> FALSE,
           stepout |-> FALSE]
NoOutcome == [kind |-> "none", code |-> 0, text |-> <<>>, value |-> None]
\* present: the job-id was a key of the registry when the call was made;
\* overlap: another invocation with the same job-id ran at the same time;
\* interf: kill(jobid) or cleanup() ran during the invocation;
\* killed: kill(jobid) signalled the child;
\* rekill: kill(jobid) ran again after the child had been signalled;
\* cleaned: cleanup() removed the entry of the child while it was running
NoHist == [present |-> FALSE, overlap |-> FALSE, interf |-> FALSE,
           killed |-> FALSE, rekill |-> FALSE, cleaned |-> FALSE]

\* the check of the keyword arguments left out
StepoutCheckSkipped(kwargsHaveStepout) == FALSE

\* line 85: "stepout" in kwargs
StepoutCheck(kwargsHaveStepout) == kwargsHaveStepout

\* line 86; the failure the documentation calls InvalidArgument
StepoutError == [NoOutcome EXCEPT !.kind = "KeyError: stepout"]

\* line 124
ExecutableKeyError == [NoOutcome EXCEPT !.kind = "KeyError: executable"]

\* line 160, on a job-id the registry does not hold
JobidKeyError == [NoOutcome EXCEPT !.kind = "KeyError: jobid"]

\* lines 163, 172: sp.CalledProcessError(retcode, cmd)
CalledProcessError(code, text) ==
    [NoOutcome EXCEPT !.kind = "CalledProcessError", !.code = code,
                      !.text = text]

\* line 164
Returned(value) == [NoOutcome EXCEPT !.kind = "return", !.value = value]

\* the generator ran to its end
StopIteration == [NoOutcome EXCEPT !.kind = "StopIteration"]

\* the generator was closed by its consumer
GeneratorExit == [NoOutcome EXCEPT !.kind = "GeneratorExit"]

\* a pipe for captured output only
PipedForReadOnly(c) == c.read

\* line 93: stdout = sp.PIPE if iterable or read else STDOUT
Piped(c) == c.iterable \/ c.read

\* lines 146-149: where the invocation goes once the child is registered
Dispatch(c) == IF c.iterable THEN "gen" ELSE "wait"

\* line 141
AfterSpawn(c) == IF c.jobid # NoJob THEN "spawned" ELSE Dispatch(c)

\* line 158
AfterWait(c) == IF c.jobid # NoJob THEN "waited" ELSE "return"

\* lines 162-164
Result(code, text, value) ==
    IF code # 0 THEN CalledProcessError(code, text) ELSE Returned(value)

\* a generator that forgets the exit code
GeneratorResultIgnoresCode(code, text) == StopIteration

\* lines 170-172
GeneratorResult(code, text) ==
    IF code # 0 THEN CalledProcessError(code, text) ELSE StopIteration

\* lines 82-139: the check of the keyword arguments, the command text, the
\* notifications and the spawn
Call(i, c, ctx) ==
    /\ pc[i] = "new"
    /\ call' = [call EXCEPT ![i] = c]
    /\ IF StepoutCheck(c.stepout)
       THEN /\ pc' = [pc EXCEPT ![i] = "done"]
            /\ outcome' = [outcome EXCEPT ![i] = StepoutError]
            /\ UNCHANGED <<cmd, notes, proc, hist>>
       ELSE /\ notes' = [notes EXCEPT ![i] =
                  Notifications(ctx, _process_prefix, _process_args, Bindings)]
            /\ IF WrapFails(ctx, _process_args)
               THEN /\ pc' = [pc EXCEPT ![i] = "done"]
                    /\ outcome' = [outcome EXCEPT ![i] = ExecutableKeyError]
                    /\ UNCHANGED <<cmd, proc, hist>>
               ELSE /\ cmd' = [cmd EXCEPT ![i] =
                          WrapCmd(ctx,
                                  BaseCmd(_process_prefix, ctx.template,
                                          _process_suffix, Bindings),
                                  _process_args)]
                    /\ proc' = [proc EXCEPT ![i] = Popen(Piped(c))]
                    /\ pc' = [pc EXCEPT ![i] = AfterSpawn(c)]
                    /\ outcome' = outcome
                    /\ hist' =
                         [k \in Invs |->
                            IF k = i
                            THEN [NoHist EXCEPT
                                    !.present = c.jobid # NoJob
                                                /\ _processes[c.jobid] # NoProc,
                                    !.overlap = c.jobid # NoJob
                                                /\ \E m \in Invs \ {i} :
                                                     /\ InFlight(m)
                                                     /\ call[m].jobid = c.jobid]
                            ELSE IF c.jobid # NoJob /\ InFlight(k)
                                    /\ call[k].jobid = c.jobid
                            THEN [hist[k] EXCEPT !.overlap = TRUE]
                            ELSE hist[k]]
    /\ UNCHANGED <<cfgvars, regvars, ret, retcode, items, canvars>>

\* a lock that is taken without waiting for its holder
AcquireUnchecked(thread) == _lock' = thread

\* threading.Lock.__enter__ (lines 72, 79, 142, 159): blocks until the lock
\* is free
Acquire(thread) ==
    /\ _lock = Free
    /\ _lock' = thread

\* line 142: with cls._lock
RegAcquire(i) ==
    /\ pc[i] = "spawned"
    /\ Acquire(i)
    /\ pc' = [pc EXCEPT ![i] = "reg"]
    /\ UNCHANGED <<cfgvars, _processes, call, cmd, notes, ret, retcode,
                   outcome, items, proc, canvars, hist>>

\* line 143, and the release of the lock
Register(i) ==
    /\ pc[i] = "reg"
    /\ _processes' = RegistryInsert(_processes, call[i].jobid, i)
    /\ _lock' = Free
    /\ pc' = [pc EXCEPT ![i] = Dispatch(call[i])]
    /\ UNCHANGED <<cfgvars, call, cmd, notes, ret, retcode, outcome, items,
                   proc, canvars, hist>>

\* lines 148-156: proc.stdout.read() and proc.wait() return once the child
\* has exited
Wait(i) ==
    /\ pc[i] = "wait"
    /\ proc[i].state = "exited"
    /\ ret' = [ret EXCEPT ![i] =
                 IF call[i].read THEN Concat(proc[i].out) ELSE None]
    /\ retcode' = [retcode EXCEPT ![i] = proc[i].code]
    /\ proc' = [proc EXCEPT ![i].waited = TRUE]
    /\ pc' = [pc EXCEPT ![i] = AfterWait(call[i])]
    /\ UNCHANGED <<cfgvars, regvars, call, cmd, notes, outcome, items,
                   canvars, hist>>

\* line 159: with cls._lock
DeregAcquire(i) ==
    /\ pc[i] = "waited"
    /\ Acquire(i)
    /\ pc' = [pc EXCEPT ![i] = "dereg"]
    /\ UNCHANGED <<cfgvars, _processes, call, cmd, notes, ret, retcode,
                   outcome, items, proc, canvars, hist>>

\* line 160, and the release of the lock: del raises KeyError when the
\* job-id is not a key
Deregister(i) ==
    /\ pc[i] = "dereg"
    /\ _lock' = Free
    /\ IF _processes[call[i].jobid] # NoProc
       THEN /\ _processes' = RegistryDelete(_processes, call[i].jobid)
            /\ pc' = [pc EXCEPT ![i] = "return"]
            /\ outcome' = outcome
       ELSE /\ _processes' = _processes
            /\ pc' = [pc EXCEPT ![i] = "done"]
            /\ outcome' = [outcome EXCEPT ![i] = JobidKeyError]
    /\ UNCHANGED <<cfgvars, call, cmd, notes, ret, retcode, items, proc,
                   canvars, hist>>

\* lines 162-164
Return(i) ==
    /\ pc[i] = "return"
    /\ outcome' = [outcome EXCEPT ![i] = Result(retcode[i], cmd[i], ret[i])]
    /\ pc' = [pc EXCEPT ![i] = "done"]
    /\ UNCHANGED <<cfgvars, regvars, call, cmd, notes, ret, retcode, items,
                   proc, canvars, hist>>

----------------------------------------------------------------------------
\* shell.iter_stdout (lines 166-172), the generator of a streaming
\* invocation, driven by its consumer.

\* the next line of the child's output can be read: it is complete, or the
\* child has closed its end of the pipe
LineReady(i) ==
    LET n == Len(items[i]) IN
    /\ n < Len(proc[i].out)
    /\ (Terminated(proc[i].out[n + 1]) \/ proc[i].state = "exited")

\* lines 168-169: one turn of the loop
GenYield(i) ==
    /\ pc[i] = "gen"
    /\ LineReady(i)
    /\ items' = [items EXCEPT ![i] =
                   Append(@, StripLast(proc[i].out[Len(items[i]) + 1]))]
    /\ UNCHANGED <<cfgvars, regvars, pc, call, cmd, notes, ret, retcode,
                   outcome, proc, canvars, hist>>

\* lines 170-172: the loop has met the end of the output
GenFinish(i) ==
    /\ pc[i] = "gen"
    /\ ~LineReady(i)
    /\ proc[i].state = "exited"
    /\ retcode' = [retcode EXCEPT ![i] = proc[i].code]
    /\ proc' = [proc EXCEPT ![i].waited = TRUE]
    /\ outcome' = [outcome EXCEPT ![i] =
                     GeneratorResult(proc[i].code, cmd[i])]
    /\ pc' = [pc EXCEPT ![i] = "done"]
    /\ UNCHANGED <<cfgvars, regvars, call, cmd, notes, ret, items, canvars,
                   hist>>

\* generator.close(), or the generator dropped before its end:
\* GeneratorExit is raised at the yield (or the body never starts), and
\* nothing catches it
GenClose(i) ==
    /\ pc[i] = "gen"
    /\ outcome' = [outcome EXCEPT ![i] = GeneratorExit]
    /\ pc' = [pc EXCEPT ![i] = "done"]
    /\ UNCHANGED <<cfgvars, regvars, call, cmd, notes, ret, retcode, items,
                   proc, canvars, hist>>

----------------------------------------------------------------------------
\* The child process.

ExitCodes == {0, 1}

\* the child prints one more line to the pipe
ProcWrite(i, terminated) ==
    /\ proc[i].state = "running"
    /\ proc[i].piped
    /\ Len(proc[i].out) < MaxLines
    /\ proc[i].out # <<>> => Terminated(proc[i].out[Len(proc[i].out)])
    /\ proc' = [proc EXCEPT ![i].out =
                  Append(@, Line(Len(proc[i].out) + 1, terminated))]
    /\ UNCHANGED <<cfgvars, regvars, invvars, canvars, hist>>

\* the child exits by itself
ProcExit(i, code) ==
    /\ proc[i].state = "running"
    /\ proc' = [proc EXCEPT ![i].state = "exited", ![i].code = code]
    /\ UNCHANGED <<cfgvars, regvars, invvars, canvars, hist>>

----------------------------------------------------------------------------
\* shell.kill and shell.cleanup (lines 70-80), called by another thread.

\* line 72: with cls._lock
KillAcquire(j) ==
    /\ cpc = "idle"
    /\ Acquire(Canceller)
    /\ cpc' = "kill"
    /\ carg' = j
    /\ UNCHANGED <<cfgvars, _processes, invvars, proc, hist>>

\* line 73: jobid in cls._processes
KillFinds(reg, j) == reg[j] # NoProc

\* a kill that leaves the entry in place
KillDeleteKept(reg, j) == reg

\* line 75: del cls._processes[jobid]
KillDelete(reg, j) == [reg EXCEPT ![j] = NoProc]

\* lines 73-75, and the release of the lock
Kill ==
    /\ cpc = "kill"
    /\ IF KillFinds(_processes, carg)
       THEN /\ proc' = [proc EXCEPT ![_processes[carg]] = PopenKill(@)]
            /\ _processes' = KillDelete(_processes, carg)
       ELSE UNCHANGED <<proc, _processes>>
    /\ _lock' = Free
    /\ cpc' = "idle"
    /\ carg' = NoJob
    /\ hist' = [k \in Invs |->
                  [hist[k] EXCEPT
                     !.interf = @ \/ (InFlight(k) /\ call[k].jobid = carg),
                     !.killed = @ \/ _processes[carg] = k,
                     !.rekill = @ \/ (/\ call[k].jobid = carg
                                      /\ proc[k].signals > 0)]]
    /\ UNCHANGED <<cfgvars, invvars>>

\* line 79: with cls._lock
CleanupAcquire ==
    /\ cpc = "idle"
    /\ Acquire(Canceller)
    /\ cpc' = "cleanup"
    /\ UNCHANGED <<cfgvars, _processes, invvars, proc, carg, hist>>

\* line 80, and the release of the lock
Cleanup ==
    /\ cpc = "cleanup"
    /\ _processes' = RegistryClear(_processes)
    /\ _lock' = Free
    /\ cpc' = "idle"
    /\ hist' = [k \in Invs |->
                  IF InFlight(k)
                  THEN [hist[k] EXCEPT
                          !.interf = TRUE,
                          !.cleaned = @ \/ (/\ call[k].jobid # NoJob
                                            /\ _processes[call[k].jobid] = k
                                            /\ proc[k].state = "running")]
                  ELSE hist[k]]
    /\ UNCHANGED <<cfgvars, invvars, proc, carg>>

----------------------------------------------------------------------------
\* The engine: the configuration is what start-up detection left, and the
\* invocations, their children and the canceller run interleaved.

CallInputs ==
    [jobid : {NoJob} \cup CallJobs, iterable : BOOLEAN, read : BOOLEAN,
     stepout : BOOLEAN]

InitEngine ==
    /\ _lock = Free
    /\ _processes = [j \in JobIds |-> NoProc]
    /\ pc = [i \in Invs |-> "new"]
    /\ call = [i \in Invs |-> NoCall]
    /\ cmd = [i \in Invs |-> <<>>]
    /\ notes = [i \in Invs |-> <<>>]
    /\ ret = [i \in Invs |-> None]
    /\ retcode = [i \in Invs |-> 0]
    /\ outcome = [i \in Invs |-> NoOutcome]
    /\ items = [i \in Invs |-> <<>>]
    /\ proc = [i \in Invs |-> NoProcess]
    /\ cpc = "idle"
    /\ carg = NoJob
    /\ hist = [i \in Invs |-> NoHist]

\* the steps of the invocations in S, of their children when these print
\* nothing, and of the canceller
Steps(S) ==
    \/ \E i \in S : RegAcquire(i)
    \/ \E i \in S : Register(i)
    \/ \E i \in S : Wait(i)
    \/ \E i \in S : DeregAcquire(i)
    \/ \E i \in S : Deregister(i)
    \/ \E i \in S : Return(i)
    \/ \E i \in S : GenFinish(i)
    \/ \E i \in S : GenClose(i)
    \/ \E i \in S, code \in ExitCodes : ProcExit(i, code)
    \/ \E j \in JobIds : KillAcquire(j)
    \/ Kill
    \/ CleanupAcquire
    \/ Cleanup

Engine(S, ctxs) ==
    \/ \E i \in S, c \in CallInputs, ctx \in ctxs : Call(i, c, ctx)
    \/ Steps(S)

\* Two invocations that may overlap, on a platform with bash, each in the
\* plain context; their children print nothing.
Init ==
    /\ InitConfig([posix |-> TRUE, path |-> {"bash", "sh"}])
    /\ InitEngine

Next == Engine(Invs, {PlainCtx(<<"echo", SP, "{x}">>, FALSE)})

Spec == Init /\ [][Next]_vars

\* Two invocations of one job, streaming or fire-and-forget and neither
\* from a stepped-out rule, under the scheduling of threads: a thread that holds the lock runs on to the end
\* of its with block, and the canceller takes the lock when it stays free.
\* Nothing obliges a child to exit or an invocation to be called.
LockInputs ==
    {c \in CallInputs : c.jobid # NoJob /\ ~c.stepout /\ ~c.read}

NextFair ==
    \/ \E i \in Invs, c \in LockInputs :
            Call(i, c, PlainCtx(<<"echo", SP, "{x}">>, FALSE))
    \/ Steps(Invs)

LockedStep ==
    \/ \E i \in Invs : Register(i)
    \/ \E i \in Invs : Deregister(i)
    \/ Kill
    \/ Cleanup

CancellerAcquire ==
    \/ \E j \in JobIds : KillAcquire(j)
    \/ CleanupAcquire

SpecFair ==
    /\ Init
    /\ [][NextFair]_vars
    /\ WF_vars(LockedStep)
    /\ WF_vars(CancellerAcquire)

\* One invocation on any platform, in any context, whose child prints up
\* to MaxLines lines.
InitSolo ==
    /\ \E pf \in Platforms : InitConfig(pf)
    /\ InitEngine

NextSolo ==
    \/ Engine({1}, Contexts)
    \/ \E t \in BOOLEAN : ProcWrite(1, t)
    \/ GenYield(1)

SpecSolo == InitSolo /\ [][NextSolo]_vars

\* The configuration alone: the setters called in any order after start-up.
InitConfigOnly == InitSolo

NextConfig ==
    \/ /\ \E c \in ExeInputs : SetExecutable(c)
       /\ UNCHANGED <<regvars, invvars, proc, canvars, hist>>
    \/ /\ \E p \in PrefixInputs : SetPrefix(p)
       /\ UNCHANGED <<regvars, invvars, proc, canvars, hist>>
    \/ /\ \E x \in SuffixInputs : SetSuffix(x)
       /\ UNCHANGED <<regvars, invvars, proc, canvars, hist>>

SpecConfig == InitConfigOnly /\ [][NextConfig]_vars

\* The command text: one fire-and-forget invocation without job-id, called
\* with the executable start-up found, under any prefix and suffix the
\* setters leave, with any selectors; the steps after the spawn are left
\* out.
CommandInputs ==
    {c \in CallInputs : c.jobid = NoJob /\ ~c.iterable /\ ~c.read}

NextCommand ==
    \/ /\ \E p \in PrefixInputs : SetPrefix(p)
       /\ UNCHANGED <<regvars, invvars, proc, canvars, hist>>
    \/ /\ \E x \in SuffixInputs : SetSuffix(x)
       /\ UNCHANGED <<regvars, invvars, proc, canvars, hist>>
    \/ \E c \in CommandInputs, ctx \in Selected : Call(1, c, ctx)

SpecCommand == InitSolo /\ [][NextCommand]_vars

----------------------------------------------------------------------------
\* Properties.

Blocking(i) == ~call[i].iterable /\ proc[i].state # "none"
Streaming(i) == call[i].iterable /\ proc[i].state # "none"
HasJob(i) == call[i].jobid # NoJob
Undisturbed(i) == ~hist[i].interf

RegisteredThenDeregistered(i) ==
    /\ pc[i] \in {"wait", "waited", "dereg"}
          => _processes[call[i].jobid] = i
    /\ pc[i] = "return" => _processes[call[i].jobid] = NoProc

\* C1, as stated: a capture or fire-and-forget invocation with a job-id j
\* that was not registered when it was called, with no kill or cleanup
\* during it, has j mapped to its child from registration to the end of
\* the wait, and j is not registered when it returns or raises
\* CalledProcessError.
C1_RegisteredThenDeregistered ==
    \A i \in Invs :
        (Blocking(i) /\ HasJob(i) /\ ~hist[i].present /\ Undisturbed(i))
            => RegisteredThenDeregistered(i)

\* C1, amended: the same, provided no other invocation with the same
\* job-id runs at the same time.
C1_RegisteredThenDeregisteredAlone ==
    \A i \in Invs :
        (Blocking(i) /\ HasJob(i) /\ ~hist[i].present /\ Undisturbed(i)
            /\ ~hist[i].overlap)
            => RegisteredThenDeregistered(i)

\* an invocation of the amended C1 is about to raise CalledProcessError
\* while the other invocation has returned its result
C1_Witness ==
    /\ Blocking(1) /\ HasJob(1) /\ ~hist[1].present /\ Undisturbed(1)
    /\ ~hist[1].overlap
    /\ pc[1] = "return" /\ retcode[1] = 1
    /\ Blocking(2) /\ HasJob(2) /\ ~hist[2].present /\ Undisturbed(2)
    /\ ~hist[2].overlap
    /\ outcome[2].kind = "return"

\* C2: when kill(j) signals the child of a capture or fire-and-forget
\* invocation, the entry is removed once, the invocation ends with its
\* result or CalledProcessError (no error of a second removal), and j is
\* not registered once both have finished.
C2_KillDeregistersOnce ==
    \A i \in Invs :
        (Blocking(i) /\ hist[i].killed /\ ~hist[i].overlap
            /\ pc[i] = "done" /\ cpc = "idle")
            => /\ outcome[i].kind \in {"return", "CalledProcessError"}
               /\ proc[i].signals = 1
               /\ _processes[call[i].jobid] = NoProc

\* C3: once the sequence of a streaming invocation with job-id j has been
\* consumed to its end, the child has been waited for and j is not
\* registered.
C3_ConsumedStreamDeregisters ==
    \A i \in Invs :
        (Streaming(i) /\ HasJob(i) /\ ~hist[i].overlap /\ pc[i] = "done"
            /\ outcome[i].kind \in {"StopIteration", "CalledProcessError"})
            => /\ proc[i].waited
               /\ _processes[call[i].jobid] = NoProc

\* C4: when the consumer closes the sequence of a streaming invocation
\* before its end, the child is still waited for.
C4_ClosedStreamIsReaped ==
    \A i \in Invs :
        (Streaming(i) /\ outcome[i].kind = "GeneratorExit")
            => proc[i].waited

\* C5: kill(j) for a job-id that is not registered returns, signals no
\* child and leaves the registry as it is; no child is signalled twice.
C5_KillUnknownIsNoop ==
    /\ [](\A i \in Invs : proc[i].signals <= 1)
    /\ [][(cpc = "kill" /\ cpc' # "kill" /\ _processes[carg] = NoProc)
            => (/\ cpc' = "idle"
                /\ _lock' = Free
                /\ _processes' = _processes
                /\ proc' = proc)]_vars

\* kill(1) has run a second time after it signalled the child of an
\* invocation, and kill(2), never registered, is running
C5_Witness ==
    /\ \E i \in Invs : hist[i].rekill /\ proc[i].signals = 1
    /\ cpc = "kill" /\ carg = 2

\* C6: after executable-setter calls only, two or more of them with a
\* bash-named executable, the prefix holds the fail-fast directive once.
C6_FailFastOnce ==
    (setterCalls.prefix = 0 /\ setterCalls.bash >= 2)
        => CountSub(FailFast, _process_prefix) = 1

\* C7: a call whose keyword arguments contain stepout raises the KeyError
\* of line 86 and changes nothing else: no child, no registry entry added
\* or removed, no notification.
C7_StepoutRejected ==
    [][\A i \in Invs :
         (pc[i] = "new" /\ pc'[i] # "new" /\ call'[i].stepout)
            => /\ pc'[i] = "done"
               /\ outcome'[i] = StepoutError
               /\ proc' = proc
               /\ _processes' = _processes
               /\ notes' = notes
               /\ cmd' = cmd]_vars

\* a call with stepout and a job-id, in streaming mode, has been rejected
C7_Witness ==
    /\ outcome[1] = StepoutError
    /\ call[1].jobid # NoJob /\ call[1].iterable

\* C8: with no kill or cleanup during it, a capture or fire-and-forget
\* invocation raises CalledProcessError with the exit code and the command
\* text exactly when the exit code is not zero, and otherwise returns the
\* whole captured output (capture) or None (fire-and-forget).
C8_ExitCodeDecidesOutcome ==
    \A i \in Invs :
        (Blocking(i) /\ Undisturbed(i) /\ pc[i] = "done")
            => outcome[i] =
                 IF proc[i].code # 0
                 THEN CalledProcessError(proc[i].code, cmd[i])
                 ELSE Returned(IF call[i].read THEN Concat(proc[i].out)
                               ELSE None)

\* item k is line k, less at most its last character
ItemOfLine(item, line) ==
    /\ Len(line) - 1 <= Len(item)
    /\ Len(item) <= Len(line)
    /\ item = SubSeq(line, 1, Len(item))

\* C9: the sequence of a streaming invocation yields one item per line
\* the child printed, in the order printed; after the last of them it
\* raises CalledProcessError with the exit code and the command text when
\* the exit code is not zero, and ends otherwise.
C9_StreamYieldsEveryLine ==
    \A i \in Invs :
        Streaming(i) =>
            /\ Len(items[i]) <= Len(proc[i].out)
            /\ \A k \in 1..Len(items[i]) :
                  ItemOfLine(items[i][k], proc[i].out[k])
            /\ (pc[i] = "done" /\ outcome[i].kind # "GeneratorExit")
                  => /\ Len(items[i]) = Len(proc[i].out)
                     /\ outcome[i] =
                          IF proc[i].code # 0
                          THEN CalledProcessError(proc[i].code, cmd[i])
                          ELSE StopIteration

\* a stream of MaxLines lines has ended with CalledProcessError
C9_Witness ==
    /\ Streaming(1)
    /\ Len(items[1]) = MaxLines
    /\ outcome[1].kind = "CalledProcessError" /\ outcome[1].code = 1

\* C10, as stated: whenever the child of an unfinished invocation with
\* job-id j is alive, kill(j) would find j mapped to that child.
C10_NoSilentKillWhileAlive ==
    \A i \in Invs :
        (HasJob(i) /\ InFlight(i) /\ proc[i].state = "running")
            => _processes[call[i].jobid] = i

\* C10, amended: once the invocation has completed the registration of j,
\* and as long as no kill(j), cleanup or other invocation with j has run
\* since it was called, a kill(j) finds j and signals the living child.
C10_KillFindsRegistered ==
    [][\A i \in Invs :
         (/\ cpc = "kill" /\ cpc' = "idle" /\ carg = call[i].jobid
          /\ HasJob(i) /\ InFlight(i) /\ proc[i].state = "running"
          /\ pc[i] \notin {"spawned", "reg"}
          /\ ~hist[i].interf /\ ~hist[i].overlap)
            => /\ proc'[i].signals = 1
               /\ proc'[i].state = "exited"
               /\ proc'[i].code = -9]_vars

\* kill(j) has signalled the living child of a registered invocation
C10_Witness ==
    \E i \in Invs :
        /\ hist[i].killed /\ ~hist[i].overlap
        /\ InFlight(i) /\ proc[i].code = -9 /\ proc[i].signals = 1

\* C11, as stated: whatever setters have been called, an executable named
\* bash comes with a prefix that contains the fail-fast directive.
C11_BashImpliesFailFast ==
    Basename(_process_args) = "bash"
        => CountSub(FailFast, _process_prefix) >= 1

\* C11, amended: the same, provided the prefix setter has not been called
\* since the executable was last set.
C11_BashImpliesFailFastUntilPrefix ==
    (Basename(_process_args) = "bash" /\ setterCalls.since = 0)
        => CountSub(FailFast, _process_prefix) >= 1

\* a prefix without the directive has been set, then an executable named
\* bash, and the suffix has been set too
C11_Witness ==
    /\ Basename(_process_args) = "bash"
    /\ setterCalls.since = 0 /\ setterCalls.prefix = 1
    /\ SubSeq(_process_prefix, 1, 2) = <<"p;", SP>>
    /\ _process_suffix # <<>>

\* what lines 162-164 make of the exit code of the child of i
NormalOutcome(i) ==
    IF proc[i].code # 0
    THEN CalledProcessError(proc[i].code, cmd[i])
    ELSE Returned(IF call[i].read THEN Concat(proc[i].out) ELSE None)

\* C12: when cleanup() has emptied the registry while the child of a
\* capture or fire-and-forget invocation with a job-id was running (and
\* nothing has signalled the child), the deregistration of the invocation
\* is a no-op and the invocation ends with its result or with
\* CalledProcessError, as the exit code says.
C12_DeregisterToleratesCleanup ==
    \A i \in Invs :
        (Blocking(i) /\ HasJob(i) /\ hist[i].cleaned /\ ~hist[i].killed
            /\ ~hist[i].overlap /\ pc[i] = "done")
            => outcome[i] = NormalOutcome(i)

\* the threads inside a with cls._lock block
Inside ==
    {i \in Invs : pc[i] \in {"reg", "dereg"}}
        \cup (IF cpc # "idle" THEN {Canceller} ELSE {})

\* C13: the registry is read, written and killed from only inside a with
\* cls._lock block; at most one thread is inside such a block, and it is
\* the holder of the lock; the lock is free when no thread is inside (it
\* is released on every way out, the KeyError of line 160 included), and
\* no invocation holds it while it waits for or reads from its child;
\* hence the lock is always released again and the canceller always gets
\* it and finishes its kill or cleanup, however long the children run.
C13_RegistryLock ==
    /\ [](/\ Cardinality(Inside) <= 1
          /\ \A t \in Inside : _lock = t
          /\ Inside = {} => _lock = Free
          /\ \A i \in Invs :
                pc[i] \in {"spawned", "wait", "gen", "waited", "return",
                           "done"} => _lock # i)
    /\ [][_processes' # _processes
            => (_lock \in Inside /\ _lock' = Free)]_vars
    /\ (_lock # Free) ~> (_lock = Free /\ cpc = "idle")
    /\ []<>(cpc # "idle")

\* the canceller holds the lock in kill(1) while one invocation waits for
\* its running child and the other waits to register
C13_Witness ==
    /\ cpc = "kill" /\ carg = 1 /\ _lock = Canceller
    /\ pc[1] = "wait" /\ proc[1].state = "running" /\ _processes[1] = 1
    /\ pc[2] = "spawned" /\ call[2].jobid = 1

\* whether a selector of the context is present and non-empty
Selects(v) == v \notin {Absent, Empty}

\* C14: the command that is spawned is container(conda(modules(base))):
\* base is the formatted prefix, template and suffix joined by single
\* spaces, each stage is applied exactly when its selector is present and
\* non-empty, and the container stage receives the conda-wrapped command.
C14_SpawnedCommand ==
    [][(pc[1] = "new" /\ proc'[1].state = "running") =>
       \A c \in CommandInputs, ctx \in Selected :
          Call(1, c, ctx) =>
              LET base == Fmt(_process_prefix, Bindings) \o <<SP>>
                            \o Fmt(ctx.template, Bindings) \o <<SP>>
                            \o Fmt(_process_suffix, Bindings)
                  modules == IF Selects(ctx.env_modules)
                             THEN ModulesShellcmd(ctx.env_modules, base)
                             ELSE base
                  conda == IF Selects(ctx.conda_env)
                           THEN CondaShellcmd(ctx.container_img,
                                              ctx.conda_env, modules)
                           ELSE modules
                  container == IF Selects(ctx.container_img)
                               THEN SingularityShellcmd(
                                        ctx.container_img, conda,
                                        ctx.singularity_args, _process_args,
                                        ctx.shadow_dir)
                               ELSE conda
              IN cmd'[1] = container]_vars

\* a command wrapped for conda and then for the container, with a prefix
\* and a suffix the caller set and no module stage
C14_Witness ==
    /\ proc[1].state = "running"
    /\ cmd[1] = <<"singularity(", "img", "", "None", "/", "bin", "bash", ":",
                  "conda(", "img", "env", ":",
                  "p;", SP, "echo", SP, "v", SP, ";s", ")", ")">>

\* the three protocols, told apart by what the invocation does after the
\* spawn
StreamingProtocol(i) ==
    /\ pc[i] \in {"spawned", "reg", "gen", "done"}
    /\ ret[i] = None
    /\ outcome[i].kind \in {"none", "StopIteration", "GeneratorExit",
                            "CalledProcessError"}

BlockingProtocol(i, value) ==
    /\ pc[i] \in {"spawned", "reg", "wait", "waited", "dereg", "return",
                  "done"}
    /\ items[i] = <<>>
    /\ pc[i] \in {"waited", "dereg", "return"} => ret[i] = value
    /\ outcome[i].kind \in {"none", "return", "CalledProcessError",
                            "KeyError: jobid"}
    /\ outcome[i].kind = "return" => outcome[i].value = value

\* C15: an invocation follows the streaming protocol when iterable is
\* true, whatever read is, the capture protocol when read is true and
\* iterable is false, and the fire-and-forget protocol when both are
\* false; its child's standard output is a pipe exactly when iterable or
\* read is true.
C15_OneProtocolPerFlags ==
    \A i \in Invs :
        proc[i].state # "none" =>
            /\ proc[i].piped <=> (call[i].iterable \/ call[i].read)
            /\ ~proc[i].piped => proc[i].out = <<>>
            /\ IF call[i].iterable
               THEN StreamingProtocol(i)
               ELSE IF call[i].read
               THEN BlockingProtocol(i, Concat(proc[i].out))
               ELSE BlockingProtocol(i, None)

\* a capture invocation has returned the two lines its child printed
C15_Witness ==
    /\ call[1].read /\ ~call[1].iterable
    /\ proc[1].piped /\ Len(proc[1].out) = MaxLines
    /\ pc[1] = "done"
    /\ outcome[1] = Returned(Concat(proc[1].out))

\* a line less its terminator, when it has one
SansTerminator(l) == IF Terminated(l) THEN SubSeq(l, 1, Len(l) - 1) ELSE l

\* C16: every item of the streaming sequence is the line the child printed
\* with only its terminator removed; a last line without terminator is
\* produced as it is.
C16_ItemIsLineSansTerminator ==
    \A i \in Invs :
        Streaming(i) =>
            \A k \in 1..Len(items[i]) :
                items[i][k] = SansTerminator(proc[i].out[k])

\* the name c is not absolute and is not found on the search path of a
\* POSIX platform
Unresolvable(c) == posix /\ ~IsAbs(c) /\ Which(c, onPath) = NoExe

\* C17: the executable setter, called on a POSIX platform with a name that
\* is not absolute and is not found on the search path, fails with the
\* error the documentation calls ExecutableNotFound and leaves the
\* executable and the prefix as they were.
C17_UnresolvableIsNotFound ==
    [][\A c \in ExeInputs :
          (Unresolvable(c) /\ SetExecutable(c)) =>
              /\ setterResult' = "ExecutableNotFound"
              /\ _process_args' = _process_args
              /\ _process_prefix' = _process_prefix]_vars

\* C18: the executable setter, called with an executable named bash while
\* the prefix is P, leaves the directive followed by P as the prefix, and
\* the resolved path as the executable.
C18_FailFastInFront ==
    [][\A c \in ExeInputs :
          (/\ ~Unresolvable(c)
           /\ Basename(Resolve(c, posix, onPath)) = "bash"
           /\ SetExecutable(c)) =>
              /\ _process_prefix' = FailFast \o _process_prefix
              /\ _process_args' = Resolve(c, posix, onPath)]_vars

\* no setter of the executable or of the prefix has been called since the
\* module was loaded
AsLoaded == setterCalls.executable = 0 /\ setterCalls.prefix = 0

\* C19: on a POSIX platform the start-up detection leaves one of three
\* configurations: with bash on the search path, the path of bash and the
\* directive as prefix; with sh but not bash, the path of sh and an empty
\* prefix; with neither, no executable and an empty prefix.  It warns
\* exactly in the last two cases.
C19_StartUpConfigurations ==
    (posix /\ AsLoaded) =>
        /\ "bash" \in onPath =>
              /\ _process_args = BinBash
              /\ _process_prefix = FailFast
              /\ warnings = 0
        /\ ("bash" \notin onPath /\ "sh" \in onPath) =>
              /\ _process_args = BinSh
              /\ _process_prefix = <<>>
              /\ warnings > 0
        /\ ("bash" \notin onPath /\ "sh" \notin onPath) =>
              /\ _process_args = NoExe
              /\ _process_prefix = <<>>
              /\ warnings > 0

\* the module was loaded where sh is the only shell: it warned once and
\* fell back to sh; the suffix has been set since
C19_Witness ==
    /\ posix /\ AsLoaded /\ onPath = {"sh"}
    /\ _process_args = BinSh /\ _process_prefix = <<>> /\ warnings = 1
    /\ _process_suffix # <<>>

\* C20: when two capture or fire-and-forget invocations with the same
\* job-id j overlap, with no kill or cleanup, each ends with the outcome
\* its own child's exit code decides and with no other error, and j is not
\* registered once both have ended.
C20_OverlapSameJobId ==
    \A i, k \in Invs :
        (/\ i # k
         /\ Blocking(i) /\ Blocking(k)
         /\ HasJob(i) /\ call[i].jobid = call[k].jobid
         /\ hist[i].overlap /\ hist[k].overlap
         /\ Undisturbed(i) /\ Undisturbed(k)
         /\ pc[i] = "done" /\ pc[k] = "done")
            => /\ outcome[i] = NormalOutcome(i)
               /\ outcome[k] = NormalOutcome(k)
               /\ _processes[call[i].jobid] = NoProc

====
